---- MODULE Spec2Model ----
(***************************************************************************)
(* A model of server.js, the OP_NET Wallet Copilot gateway: the un-awaited *)
(* provider initialisation and the five JSON routes, each handler cut at   *)
(* its await points.                                                       *)
(*                                                                         *)
(* Conventions.  A JavaScript value that the code only tests for truth     *)
(* (tx.hash, tx.value, tx.blockTime ...) is modelled by its falsy          *)
(* representative when absent: "" for strings, 0 for numbers.  A value     *)
(* that may be null in a response is a sequence, <<>> for null and <<v>>   *)
(* for v.  Decimal renderings (toString, toFixed) are sequences of         *)
(* one-character strings, so that their digits can be inspected.           *)
(***************************************************************************)
EXTENDS Integers, Sequences, FiniteSets, TLC

VARIABLES provider, initPc, env, reqs

vars == <<provider, initPc, env, reqs>>

(***************************************************************************)
(* Bounds of the model.                                                    *)
(***************************************************************************)
MaxRequests == 1
MaxTokens == 3
MaxTx == 2

(***************************************************************************)
(* Program constants.                                                      *)
(***************************************************************************)
ACTIVE_NETWORK == [rpcUrl |-> "https://regtest.opnet.org", name |-> "Regtest", currency |-> "rBTC"]

MIN_ADDRESS_LENGTH == 20

SATS_DECIMALS == 8

KNOWN_TOKENS ==
  << [address |-> "bcrt1plz0svv3wl05qrrv0dx8hvh5mgqc7jf3mhqgtw8jnj3l3d3cs6lzsfc3mxh",
      symbol |-> "MOTO", name |-> "MotoSwap Token", decimals |-> 8, color |-> "#f7931a"] >>

DEFI_PROTOCOLS ==
  << [name |-> "MotoSwap", type |-> "Liquidity Pool",
      lpToken |-> "bcrt1plz0svv3wl05qrrv0dx8hvh5mgqc7jf3mhqgtw8jnj3l3d3cs6lzsfc3mxh",
      pair |-> "rBTC / MOTO", apy |-> "24.5", color |-> "#f7931a", risk |-> "Medium"] >>

(***************************************************************************)
(* Number rendering.                                                       *)
(***************************************************************************)
Digit(d) == CASE d = 0 -> "0" [] d = 1 -> "1" [] d = 2 -> "2" [] d = 3 -> "3"
              [] d = 4 -> "4" [] d = 5 -> "5" [] d = 6 -> "6" [] d = 7 -> "7"
              [] d = 8 -> "8" [] d = 9 -> "9"

RECURSIVE Pow10(_)
Pow10(k) == IF k = 0 THEN 1 ELSE 10 * Pow10(k - 1)

\* BigInt.prototype.toString / Number.prototype.toString of a non-negative
\* integer: its decimal digits, no leading zero.
RECURSIVE IntToString(_)
IntToString(n) == IF n < 10 THEN <<Digit(n)>>
                  ELSE Append(IntToString(n \div 10), Digit(n % 10))

\* The k low decimal digits of n, zero-padded on the left.
RECURSIVE PadDigits(_, _)
PadDigits(n, k) == IF k = 0 THEN <<>>
                   ELSE Append(PadDigits(n \div 10, k - 1), Digit(n % 10))

\* Mutant of DivToFixed: the fraction is not zero-padded.
DivToFixedUnpadded(raw, decimals) ==
  IF decimals = 0 THEN IntToString(raw)
  ELSE IntToString(raw \div Pow10(decimals)) \o <<".">> \o IntToString(raw % Pow10(decimals))

\* (Number(raw) / 10^decimals).toFixed(decimals) for an integer raw >= 0.
\* Every toFixed of the program divides by 10^d and renders d places, and the
\* model's integers are far below 2^53, where Number(raw) is exact and the
\* quotient's rounding error is below half a unit of the last place rendered:
\* the rendering is the integer part, a point, and the remainder on d digits.
DivToFixed(raw, decimals) ==
  IF decimals = 0 THEN IntToString(raw)
  ELSE IntToString(raw \div Pow10(decimals)) \o <<".">>
         \o PadDigits(raw % Pow10(decimals), decimals)

(***************************************************************************)
(* The environment: whether import('opnet') resolves (sdkLoads), whether   *)
(* the rest of initProvider's try block succeeds (providerBuilds), whether *)
(* the node answers (rpcUp), and what it answers.  It is chosen at         *)
(* start-up and never changes: the remote state is unchanged during a      *)
(* behaviour.  Each route reads one component, so the components are       *)
(* varied one at a time around DefaultEnv.                                 *)
(***************************************************************************)
SatAmounts == {0, 1, 99999999, 100000000, 150000000, 250000000}

BlockNumbers == {<<>>, <<0>>, <<812>>}

\* Raw transaction records as the provider returns them.
RawTxs ==
  { [hash |-> "h1", id |-> "",   isOPNET |-> TRUE,  type |-> "",        mine |-> FALSE, value |-> 150000000, blockTime |-> 1700, blockHeight |-> 812],
    [hash |-> "",   id |-> "i2", isOPNET |-> FALSE, type |-> "",        mine |-> TRUE,  value |-> 0,         blockTime |-> 0,    blockHeight |-> 0],
    [hash |-> "",   id |-> "",   isOPNET |-> FALSE, type |-> "",        mine |-> FALSE, value |-> 1,         blockTime |-> 0,    blockHeight |-> 811],
    [hash |-> "h4", id |-> "i4", isOPNET |-> FALSE, type |-> "Generic", mine |-> TRUE,  value |-> 5000,      blockTime |-> 1701, blockHeight |-> 0] }

RECURSIVE SeqsUpTo(_, _)
SeqsUpTo(S, n) == IF n = 0 THEN {<<>>}
                  ELSE LET shorter == SeqsUpTo(S, n - 1)
                       IN  shorter \cup {Append(s, e) : s \in {t \in shorter : Len(t) = n - 1}, e \in S}

SeqsOfLen(S, n) == {s \in SeqsUpTo(S, n) : Len(s) = n}

\* txList as getTransactionsByAddress resolves it: <<>> inside for a list,
\* null for a nullish answer.
TxAnswers == {[null |-> TRUE, list |-> <<>>]}
               \cup {[null |-> FALSE, list |-> l] : l \in SeqsUpTo(RawTxs, MaxTx)}

\* What contract.balanceOf does for one descriptor: it throws, or it resolves
\* to a nullish result, an error-flagged result, a result without decoded[0],
\* or a result whose decoded[0] is raw.
CallOutcomes ==
  { [kind |-> "throws", raw |-> 0], [kind |-> "error", raw |-> 0],
    [kind |-> "ok", raw |-> 0], [kind |-> "ok", raw |-> 150000000] }

AllOutcomes == CallOutcomes \cup { [kind |-> "nullish", raw |-> 0], [kind |-> "undecoded", raw |-> 0],
                                  [kind |-> "ok", raw |-> 1] }

\* The token list the loop iterates: the program's KNOWN_TOKENS, extended by
\* further descriptors for the lists longer than the program's.
TokenAt(k) == IF k <= Len(KNOWN_TOKENS) THEN KNOWN_TOKENS[k]
              ELSE [address |-> "bcrt1ptoken" \o ToString(k), symbol |-> "TK" \o ToString(k),
                    name |-> "Token " \o ToString(k), decimals |-> k - 1, color |-> "#888888"]

TokenList(n) == [k \in 1..n |-> TokenAt(k)]

DefaultEnv ==
  [ sdkLoads |-> TRUE, providerBuilds |-> TRUE, rpcUp |-> TRUE, blockNumber |-> <<812>>, balance |-> 150000000,
    txAnswer |-> [null |-> FALSE, list |-> <<>>],
    tokens |-> KNOWN_TOKENS, tokenOutcome |-> << [kind |-> "ok", raw |-> 150000000] >>,
    lpOutcome |-> << [kind |-> "ok", raw |-> 150000000] >> ]

Envs ==
  {[DefaultEnv EXCEPT !.sdkLoads = FALSE], [DefaultEnv EXCEPT !.providerBuilds = FALSE],
   [DefaultEnv EXCEPT !.rpcUp = FALSE]}
    \cup {[DefaultEnv EXCEPT !.blockNumber = b] : b \in BlockNumbers}
    \cup {[DefaultEnv EXCEPT !.balance = s] : s \in SatAmounts}
    \cup {[DefaultEnv EXCEPT !.txAnswer = t] : t \in TxAnswers}
    \cup {[DefaultEnv EXCEPT !.tokenOutcome = <<o>>] : o \in AllOutcomes}
    \cup {[DefaultEnv EXCEPT !.tokens = TokenList(MaxTokens), !.tokenOutcome = o] :
            o \in SeqsOfLen(CallOutcomes, MaxTokens)}
    \cup {[DefaultEnv EXCEPT !.lpOutcome = <<o>>] : o \in AllOutcomes}

(***************************************************************************)
(* Requests.  A request slot holds the handler's locals and its position:  *)
(* "idle" (not yet arrived), "import" (awaiting import('opnet')), "await"  *)
(* (awaiting a provider call) and "done".  prov is the value of the global *)
(* provider that the pending contract call was bound to.  calls, seen and  *)
(* sent are the history of the request: the provider operations it         *)
(* invoked, how each one settled, and the responses it sent.               *)
(***************************************************************************)
ExampleAddress == "bcrt1qexampleaddresswithoutsufficientlength"

\* Addresses of 19, 20 and 43 characters for the route that validates the
\* length; the other routes only echo the address.
ShortAddress == "bcrt1qexampleaddres"

Addresses == {ShortAddress, "bcrt1qexampleaddress", ExampleAddress}

EchoedAddresses == {ShortAddress, ExampleAddress}

Requests == 1..MaxRequests

IdleRequest == [route |-> "none", address |-> "", pc |-> "idle", i |-> 0, acc |-> <<>>,
                prov |-> "undefined", calls |-> <<>>, seen |-> <<>>, sent |-> <<>>]

Thrown == [kind |-> "throws", raw |-> 0]

Resolved == [kind |-> "ok", raw |-> 0]

\* res.json(body) / res.status(s).json(body): the response is sent and the
\* handler returns.
Respond(q, response) == [q EXCEPT !.pc = "done", !.sent = Append(@, response)]

Arrive(q, route, address) == [q EXCEPT !.route = route, !.address = address]

Invoke(q, op, k) == [q EXCEPT !.calls = Append(@, [op |-> op, k |-> k])]

Settle(q, outcome) == [q EXCEPT !.seen = Append(@, outcome)]

\* Requests arrive in slot order.
CanArrive(r) == /\ reqs[r].pc = "idle"
                /\ IF r = 1 THEN TRUE ELSE reqs[r - 1].pc # "idle"

Init == /\ provider = "undefined"
        /\ initPc = "importing"
        /\ env \in Envs
        /\ reqs = [r \in Requests |-> IdleRequest]

(***************************************************************************)
(* initProvider(): called un-awaited at line 64; its body resumes after    *)
(* the dynamic imports, at any time relative to the requests.              *)
(***************************************************************************)
InitProvider ==
  /\ initPc = "importing"
  /\ initPc' = "done"
  /\ provider' = IF env.sdkLoads /\ env.providerBuilds THEN "constructed" ELSE provider
  /\ UNCHANGED <<env, reqs>>

(***************************************************************************)
(* GET /api/status                                                         *)
(***************************************************************************)
StatusOk(blockNumber) ==
  [status |-> 200,
   body |-> [connected |-> TRUE, network |-> ACTIVE_NETWORK.name, currency |-> ACTIVE_NETWORK.currency,
             latestBlock |-> IntToString(blockNumber), mainnetLaunch |-> "March 17, 2026"]]

\* Mutant of StatusFail: the failure is sent as a server error.
StatusFailAs500(message) ==
  [status |-> 500,
   body |-> [connected |-> FALSE, network |-> ACTIVE_NETWORK.name, currency |-> ACTIVE_NETWORK.currency,
             error |-> message]]

StatusFail(message) ==
  [status |-> 200,
   body |-> [connected |-> FALSE, network |-> ACTIVE_NETWORK.name, currency |-> ACTIVE_NETWORK.currency,
             error |-> message]]

\* The handler up to its first suspension: reading provider.getBlockNumber of
\* an undefined provider throws inside the try block.
StatusStart(r) ==
  /\ CanArrive(r)
  /\ LET q == Arrive(reqs[r], "status", "")
     IN  reqs' = [reqs EXCEPT ![r] =
                    IF provider = "undefined"
                    THEN Respond(q, StatusFail("Cannot read properties of undefined"))
                    ELSE [Invoke(q, "getBlockNumber", 0) EXCEPT !.pc = "await"]]
  /\ UNCHANGED <<provider, initPc, env>>

StatusSettle(r) ==
  /\ reqs[r].route = "status" /\ reqs[r].pc = "await"
  /\ LET q == reqs[r]
     IN  reqs' = [reqs EXCEPT ![r] =
                    IF ~env.rpcUp
                    THEN Respond(Settle(q, Thrown), StatusFail("rpc request failed"))
                    ELSE IF env.blockNumber = <<>>
                    THEN Respond(Settle(q, Resolved), StatusFail("Cannot read properties of undefined"))
                    ELSE Respond(Settle(q, Resolved), StatusOk(env.blockNumber[1]))]
  /\ UNCHANGED <<provider, initPc, env>>

(***************************************************************************)
(* GET /api/balance/:address                                               *)
(***************************************************************************)
\* Mutants of InvalidAddress: another minimum, and the comparison inverted.
InvalidAddressMin26(address) == address = "" \/ Len(address) < 26

InvalidAddressInverted(address) == address = "" \/ Len(address) > MIN_ADDRESS_LENGTH

InvalidAddress(address) == address = "" \/ Len(address) < MIN_ADDRESS_LENGTH

BalanceInvalid == [status |-> 400, body |-> [error |-> "Invalid address"]]

BalanceOk(address, balanceSatoshis) ==
  [status |-> 200,
   body |-> [address |-> address, balanceSatoshis |-> IntToString(balanceSatoshis),
             balanceBTC |-> DivToFixed(balanceSatoshis, SATS_DECIMALS),
             currency |-> ACTIVE_NETWORK.currency, network |-> ACTIVE_NETWORK.name]]

BalanceFail(message) ==
  [status |-> 500,
   body |-> [error |-> message, fallback |-> TRUE,
             balanceBTC |-> <<"0", ".", "0", "0", "0", "0", "0", "0", "0", "0">>,
             currency |-> ACTIVE_NETWORK.currency]]

BalanceStart(r, address) ==
  /\ CanArrive(r)
  /\ LET q == Arrive(reqs[r], "balance", address)
     IN  reqs' = [reqs EXCEPT ![r] =
                    IF InvalidAddress(address) THEN Respond(q, BalanceInvalid)
                    ELSE IF provider = "undefined"
                    THEN Respond(q, BalanceFail("Cannot read properties of undefined"))
                    ELSE [Invoke(q, "getBalance", 0) EXCEPT !.pc = "await"]]
  /\ UNCHANGED <<provider, initPc, env>>

BalanceSettle(r) ==
  /\ reqs[r].route = "balance" /\ reqs[r].pc = "await"
  /\ LET q == reqs[r]
     IN  reqs' = [reqs EXCEPT ![r] =
                    IF ~env.rpcUp
                    THEN Respond(Settle(q, Thrown), BalanceFail("rpc request failed"))
                    ELSE Respond(Settle(q, Resolved), BalanceOk(q.address, env.balance))]
  /\ UNCHANGED <<provider, initPc, env>>

(***************************************************************************)
(* GET /api/transactions/:address                                          *)
(***************************************************************************)
TxType(tx) == IF tx.isOPNET THEN "contract" ELSE IF tx.type # "" THEN tx.type ELSE "send"

MapTx(tx) ==
  [txid |-> IF tx.hash # "" THEN tx.hash ELSE IF tx.id # "" THEN tx.id ELSE "unknown",
   type |-> TxType(tx),
   amount |-> IF tx.value # 0 THEN DivToFixed(tx.value, SATS_DECIMALS) ELSE <<"0">>,
   timestamp |-> IF tx.blockTime # 0 THEN <<tx.blockTime>> ELSE <<>>,
   blockHeight |-> IF tx.blockHeight # 0 THEN <<tx.blockHeight>> ELSE <<>>,
   isContractCall |-> tx.isOPNET]

MapTxList(txList) == [k \in 1..Len(txList) |-> MapTx(txList[k])]

TransactionsOk(address, txAnswer) ==
  LET transactions == MapTxList(IF txAnswer.null THEN <<>> ELSE txAnswer.list)
  IN  [status |-> 200,
       body |-> [address |-> address, transactions |-> transactions, count |-> Len(transactions)]]

TransactionsFail(address, message) ==
  [status |-> 200,
   body |-> [address |-> address, transactions |-> <<>>, count |-> 0, error |-> message,
             fallback |-> TRUE]]

TransactionsStart(r, address) ==
  /\ CanArrive(r)
  /\ LET q == Arrive(reqs[r], "transactions", address)
     IN  reqs' = [reqs EXCEPT ![r] =
                    IF provider = "undefined"
                    THEN Respond(q, TransactionsFail(address, "Cannot read properties of undefined"))
                    ELSE [Invoke(q, "getTransactionsByAddress", 0) EXCEPT !.pc = "await"]]
  /\ UNCHANGED <<provider, initPc, env>>

TransactionsSettle(r) ==
  /\ reqs[r].route = "transactions" /\ reqs[r].pc = "await"
  /\ LET q == reqs[r]
     IN  reqs' = [reqs EXCEPT ![r] =
                    IF ~env.rpcUp
                    THEN Respond(Settle(q, Thrown), TransactionsFail(q.address, "rpc request failed"))
                    ELSE Respond(Settle(q, Resolved), TransactionsOk(q.address, env.txAnswer))]
  /\ UNCHANGED <<provider, initPc, env>>

(***************************************************************************)
(* GET /api/tokens/:address                                                *)
(*                                                                         *)
(* getContract(token.address, OP_20_ABI, provider) binds the contract to   *)
(* the provider's current value; with an undefined provider the call       *)
(* fails, and whether it fails before or after a suspension is the SDK's   *)
(* matter: the model lets it settle (as thrown) in a later step, which     *)
(* allows every interleaving either way.                                   *)
(***************************************************************************)
\* Mutant of TokenStep: a zero balance is kept.
TokenStepKeepsZero(tokenBalances, token, result) ==
  IF result.kind \in {"ok", "undecoded"}
  THEN LET rawBalance == IF result.kind = "ok" THEN result.raw ELSE 0
       IN  Append(tokenBalances,
                  [address |-> token.address, symbol |-> token.symbol, name |-> token.name,
                   decimals |-> token.decimals, color |-> token.color,
                   balance |-> DivToFixed(rawBalance, token.decimals)])
  ELSE tokenBalances

\* The body of the inner try block for one settled balanceOf (a thrown call is
\* caught and skipped).  balance > 0 exactly when rawBalance > 0.
TokenStep(tokenBalances, token, result) ==
  IF result.kind \in {"ok", "undecoded"}
  THEN LET rawBalance == IF result.kind = "ok" THEN result.raw ELSE 0
       IN  IF rawBalance > 0
           THEN Append(tokenBalances,
                       [address |-> token.address, symbol |-> token.symbol, name |-> token.name,
                        decimals |-> token.decimals, color |-> token.color,
                        balance |-> DivToFixed(rawBalance, token.decimals)])
           ELSE tokenBalances
  ELSE tokenBalances

TokensOk(address, tokenBalances) ==
  [status |-> 200,
   body |-> [address |-> address, tokens |-> tokenBalances, count |-> Len(tokenBalances)]]

TokensFail(address, message) ==
  [status |-> 200,
   body |-> [address |-> address, tokens |-> <<>>, count |-> 0, error |-> message, fallback |-> TRUE]]

\* Mutant of CallBalanceOf: the call is issued a second time.
CallBalanceOfRetried(q, k) ==
  [Invoke(Invoke(q, "balanceOf", k), "balanceOf", k) EXCEPT !.i = k, !.pc = "await", !.prov = provider]

\* contract.balanceOf(address) for the k-th descriptor is invoked and awaited.
CallBalanceOf(q, k) ==
  [Invoke(q, "balanceOf", k) EXCEPT !.i = k, !.pc = "await", !.prov = provider]

\* How the pending balanceOf settles.
BalanceOfResult(q, outcomes) ==
  IF q.prov = "undefined" \/ ~env.rpcUp THEN Thrown ELSE outcomes[q.i]

TokensStart(r, address) ==
  /\ CanArrive(r)
  /\ reqs' = [reqs EXCEPT ![r] = [Arrive(@, "tokens", address) EXCEPT !.pc = "import"]]
  /\ UNCHANGED <<provider, initPc, env>>

TokensImported(r) ==
  /\ reqs[r].route = "tokens" /\ reqs[r].pc = "import"
  /\ LET q == reqs[r]
     IN  reqs' = [reqs EXCEPT ![r] =
                    IF ~env.sdkLoads THEN Respond(q, TokensFail(q.address, "Cannot find package 'opnet'"))
                    ELSE CallBalanceOf(q, 1)]
  /\ UNCHANGED <<provider, initPc, env>>

TokensSettle(r) ==
  /\ reqs[r].route = "tokens" /\ reqs[r].pc = "await"
  /\ LET q == reqs[r]
         result == BalanceOfResult(q, env.tokenOutcome)
         after == [Settle(q, result) EXCEPT !.acc = TokenStep(q.acc, env.tokens[q.i], result)]
     IN  reqs' = [reqs EXCEPT ![r] =
                    IF q.i < Len(env.tokens) THEN CallBalanceOf(after, q.i + 1)
                    ELSE Respond(after, TokensOk(q.address, after.acc))]
  /\ UNCHANGED <<provider, initPc, env>>

(***************************************************************************)
(* GET /api/defi/:address                                                  *)
(*                                                                         *)
(* A position record carries, besides the fields below, valueUSD,          *)
(* earnings24h and earningsTotal, floating-point products of lpBalance     *)
(* that no property here reads; they are left out of the record.           *)
(***************************************************************************)
PositionStep(positions, protocol, balResult) ==
  IF balResult.kind \in {"ok", "undecoded"}
  THEN LET rawBalance == IF balResult.kind = "ok" THEN balResult.raw ELSE 0
       IN  IF rawBalance > 0
           THEN Append(positions,
                       [protocol |-> protocol.name, type |-> protocol.type, pair |-> protocol.pair,
                        lpBalance |-> DivToFixed(rawBalance, SATS_DECIMALS), apy |-> protocol.apy,
                        color |-> protocol.color, risk |-> protocol.risk])
           ELSE positions
  ELSE positions

\* Mutant of DefiOk: fallback is not derived from the positions.
DefiOkNeverFallback(address, positions) ==
  [status |-> 200,
   body |-> [address |-> address, positions |-> positions, count |-> Len(positions),
             network |-> ACTIVE_NETWORK.name, currency |-> ACTIVE_NETWORK.currency,
             fallback |-> FALSE]]

DefiOk(address, positions) ==
  [status |-> 200,
   body |-> [address |-> address, positions |-> positions, count |-> Len(positions),
             network |-> ACTIVE_NETWORK.name, currency |-> ACTIVE_NETWORK.currency,
             fallback |-> (Len(positions) = 0)]]

DefiFail(address, message) ==
  [status |-> 200,
   body |-> [address |-> address, positions |-> <<>>, count |-> 0, error |-> message, fallback |-> TRUE]]

DefiStart(r, address) ==
  /\ CanArrive(r)
  /\ reqs' = [reqs EXCEPT ![r] = [Arrive(@, "defi", address) EXCEPT !.pc = "import"]]
  /\ UNCHANGED <<provider, initPc, env>>

DefiImported(r) ==
  /\ reqs[r].route = "defi" /\ reqs[r].pc = "import"
  /\ LET q == reqs[r]
     IN  reqs' = [reqs EXCEPT ![r] =
                    IF ~env.sdkLoads THEN Respond(q, DefiFail(q.address, "Cannot find package 'opnet'"))
                    ELSE CallBalanceOf(q, 1)]
  /\ UNCHANGED <<provider, initPc, env>>

DefiSettle(r) ==
  /\ reqs[r].route = "defi" /\ reqs[r].pc = "await"
  /\ LET q == reqs[r]
         balResult == BalanceOfResult(q, env.lpOutcome)
         after == [Settle(q, balResult) EXCEPT !.acc = PositionStep(q.acc, DEFI_PROTOCOLS[q.i], balResult)]
     IN  reqs' = [reqs EXCEPT ![r] =
                    IF q.i < Len(DEFI_PROTOCOLS) THEN CallBalanceOf(after, q.i + 1)
                    ELSE Respond(after, DefiOk(q.address, after.acc))]
  /\ UNCHANGED <<provider, initPc, env>>

(***************************************************************************)
(* The gateway: the initialisation and the handlers, interleaved at their  *)
(* suspension points.                                                      *)
(***************************************************************************)
Next ==
  \/ InitProvider
  \/ \E r \in Requests : StatusStart(r)
  \/ \E r \in Requests : StatusSettle(r)
  \/ \E r \in Requests, a \in Addresses : BalanceStart(r, a)
  \/ \E r \in Requests : BalanceSettle(r)
  \/ \E r \in Requests, a \in EchoedAddresses : TransactionsStart(r, a)
  \/ \E r \in Requests : TransactionsSettle(r)
  \/ \E r \in Requests, a \in EchoedAddresses : TokensStart(r, a)
  \/ \E r \in Requests : TokensImported(r)
  \/ \E r \in Requests : TokensSettle(r)
  \/ \E r \in Requests, a \in EchoedAddresses : DefiStart(r, a)
  \/ \E r \in Requests : DefiImported(r)
  \/ \E r \in Requests : DefiSettle(r)

Spec == Init /\ [][Next]_vars

(***************************************************************************)
(* The same gateway serving a pair of requests, for the properties that    *)
(* compare two calls.                                                      *)
(***************************************************************************)
Pair == {1, 2}

InitPair == /\ provider = "undefined"
            /\ initPc = "importing"
            /\ env \in Envs
            /\ reqs = [r \in Pair |-> IdleRequest]

NextPair ==
  \/ InitProvider
  \/ \E r \in Pair : StatusStart(r)
  \/ \E r \in Pair : StatusSettle(r)
  \/ \E r \in Pair, a \in Addresses : BalanceStart(r, a)
  \/ \E r \in Pair : BalanceSettle(r)
  \/ \E r \in Pair, a \in EchoedAddresses : TransactionsStart(r, a)
  \/ \E r \in Pair : TransactionsSettle(r)
  \/ \E r \in Pair, a \in EchoedAddresses : TokensStart(r, a)
  \/ \E r \in Pair : TokensImported(r)
  \/ \E r \in Pair : TokensSettle(r)
  \/ \E r \in Pair, a \in EchoedAddresses : DefiStart(r, a)
  \/ \E r \in Pair : DefiImported(r)
  \/ \E r \in Pair : DefiSettle(r)

SpecPair == InitPair /\ [][NextPair]_vars

(***************************************************************************)
(* Vocabulary of the properties.                                           *)
(***************************************************************************)
Slots == DOMAIN reqs

Finished(r) == reqs[r].pc = "done"

Response(r) == reqs[r].sent[1]

Has(body, field) == field \in DOMAIN body

\* A call of the request threw, or the request never got to invoke the
\* provider although it needed it (the provider was undefined, or the SDK
\* import failed).
ProviderFailed(r) ==
  LET q == reqs[r]
  IN  \/ \E k \in 1..Len(q.seen) : q.seen[k].kind = "throws"
      \/ q.calls = <<>> /\ ~(q.route = "balance" /\ Len(q.address) < 20)

DigitValue(c) == CASE c = "0" -> 0 [] c = "1" -> 1 [] c = "2" -> 2 [] c = "3" -> 3
                   [] c = "4" -> 4 [] c = "5" -> 5 [] c = "6" -> 6 [] c = "7" -> 7
                   [] c = "8" -> 8 [] c = "9" -> 9

IsDigits(text) == \A k \in 1..Len(text) : text[k] \in {"0", "1", "2", "3", "4", "5", "6", "7", "8", "9"}

RECURSIVE ParseNat(_)
ParseNat(text) == IF text = <<>> THEN 0
                  ELSE 10 * ParseNat(SubSeq(text, 1, Len(text) - 1)) + DigitValue(text[Len(text)])

\* The indices k of outcomes, in order, whose lookup succeeded with a decoded
\* balance above zero.
RECURSIVE PositiveLookups(_)
PositiveLookups(outcomes) ==
  IF outcomes = <<>> THEN <<>>
  ELSE LET n == Len(outcomes)
           before == PositiveLookups(SubSeq(outcomes, 1, n - 1))
       IN  IF outcomes[n].kind = "ok" /\ outcomes[n].raw > 0 THEN Append(before, n) ELSE before

(***************************************************************************)
(* C1.  Whenever a provider failure occurs in GetTransactions,             *)
(* GetTokenBalances or GetDeFiPositions (a provider call throws, or the    *)
(* provider was never constructed), the response is HTTP 200 with          *)
(* fallback:true and an empty collection; in GetBalance, for a             *)
(* length-valid address, it is HTTP 500 with fallback:true.                *)
(***************************************************************************)
Collection(r) ==
  LET body == Response(r).body
  IN  CASE reqs[r].route = "transactions" -> body.transactions
        [] reqs[r].route = "tokens" -> body.tokens
        [] reqs[r].route = "defi" -> body.positions

C1_FailureYieldsFallback ==
  \A r \in Slots :
    Finished(r) /\ ProviderFailed(r) =>
      /\ reqs[r].route \in {"transactions", "tokens", "defi"} =>
           /\ Response(r).status = 200
           /\ Has(Response(r).body, "fallback") /\ Response(r).body.fallback = TRUE
           /\ Collection(r) = <<>>
      /\ reqs[r].route = "balance" =>
           /\ Response(r).status = 500
           /\ Has(Response(r).body, "fallback") /\ Response(r).body.fallback = TRUE

(***************************************************************************)
(* C2.  Loop isolation in GetTokenBalances: the tokens of the response are *)
(* exactly the descriptors whose lookup succeeded with a decoded balance   *)
(* above zero, in the order of the list; a lookup that throws, is          *)
(* error-flagged or decodes to 0 is left out and blocks no other token;    *)
(* count is the length of that sequence.                                   *)
(***************************************************************************)
C2_LoopIsolation ==
  \A r \in Slots :
    Finished(r) /\ reqs[r].route = "tokens" =>
      LET body == Response(r).body
          kept == PositiveLookups(reqs[r].seen)
      IN  /\ Len(body.tokens) = Len(kept)
          /\ \A j \in 1..Len(kept) : body.tokens[j].address = env.tokens[kept[j]].address
          /\ body.count = Len(kept)
          /\ ~Has(body, "error") => Len(reqs[r].seen) = Len(env.tokens)

\* One failing lookup amid two succeeding ones: the two succeeding tokens are
\* the output.
C2_Witness ==
  \E r \in Slots :
    /\ Finished(r) /\ reqs[r].route = "tokens" /\ Len(reqs[r].seen) = 3
    /\ reqs[r].seen[1].kind = "ok" /\ reqs[r].seen[1].raw > 0
    /\ reqs[r].seen[2].kind = "throws"
    /\ reqs[r].seen[3].kind = "ok" /\ reqs[r].seen[3].raw > 0
    /\ Len(Response(r).body.tokens) = 2

(***************************************************************************)
(* C3.  GetBalance answers an address shorter than 20 characters with HTTP *)
(* 400, an error body and no balanceBTC field; an address of 20 characters *)
(* or more never gets 400: it gets the 200 success shape or the 500        *)
(* fallback shape.                                                         *)
(***************************************************************************)
C3_AddressValidation ==
  \A r \in Slots :
    Finished(r) /\ reqs[r].route = "balance" =>
      LET body == Response(r).body
      IN  IF Len(reqs[r].address) < 20
          THEN /\ Response(r).status = 400
               /\ Has(body, "error") /\ ~Has(body, "balanceBTC") /\ ~Has(body, "fallback")
          ELSE \/ /\ Response(r).status = 200
                  /\ Has(body, "balanceSatoshis") /\ Has(body, "balanceBTC") /\ ~Has(body, "error")
               \/ /\ Response(r).status = 500
                  /\ Has(body, "error") /\ Has(body, "fallback") /\ body.fallback = TRUE

C3_Witness ==
  \E r \in Slots :
    /\ Finished(r) /\ reqs[r].route = "balance"
    /\ Len(reqs[r].address) = 19 /\ Response(r).status = 400
    /\ ~Has(Response(r).body, "balanceBTC")

(***************************************************************************)
(* C4.  On a successful balance read, balanceBTC is balanceSatoshis /      *)
(* 100000000 written with exactly 8 fractional digits (150000000 gives     *)
(* "1.50000000", 250000000 gives "2.50000000"), and balanceSatoshis is the *)
(* decimal string of the provider's integer.                               *)
(***************************************************************************)
C4_BalanceRendering ==
  \A r \in Slots :
    Finished(r) /\ reqs[r].route = "balance" /\ Response(r).status = 200 =>
      LET btc == Response(r).body.balanceBTC
          sats == Response(r).body.balanceSatoshis
          point == Len(btc) - 8
      IN  /\ point >= 2 /\ btc[point] = "."
          /\ IsDigits(SubSeq(btc, 1, point - 1)) /\ IsDigits(SubSeq(btc, point + 1, Len(btc)))
          /\ ParseNat(SubSeq(btc, 1, point - 1)) = env.balance \div 100000000
          /\ ParseNat(SubSeq(btc, point + 1, Len(btc))) = env.balance % 100000000
          /\ IsDigits(sats) /\ ParseNat(sats) = env.balance
          /\ Len(sats) = 1 \/ sats[1] # "0"
          /\ env.balance = 150000000 => btc = <<"1", ".", "5", "0", "0", "0", "0", "0", "0", "0">>
          /\ env.balance = 250000000 => btc = <<"2", ".", "5", "0", "0", "0", "0", "0", "0", "0">>

C4_Witness ==
  \E r \in Slots :
    /\ Finished(r) /\ reqs[r].route = "balance" /\ Response(r).status = 200
    /\ env.balance = 250000000
    /\ Response(r).body.balanceBTC = <<"2", ".", "5", "0", "0", "0", "0", "0", "0", "0">>
    /\ Response(r).body.balanceSatoshis = <<"2", "5", "0", "0", "0", "0", "0", "0", "0">>

(***************************************************************************)
(* C5.  In every GetDeFiPositions response, on the success path and on the *)
(* error path, fallback is true exactly when positions is empty; when the  *)
(* only protocol's LP balance is 0 the response has no positions,          *)
(* fallback true and no error field.                                       *)
(***************************************************************************)
C5_FallbackIffEmpty ==
  \A r \in Slots :
    Finished(r) /\ reqs[r].route = "defi" =>
      LET body == Response(r).body
      IN  /\ Has(body, "fallback") /\ Has(body, "positions")
          /\ body.fallback = (body.positions = <<>>)
          /\ reqs[r].seen = << [kind |-> "ok", raw |-> 0] >> =>
               body.positions = <<>> /\ body.fallback = TRUE /\ ~Has(body, "error")

C5_Witness ==
  \E r \in Slots :
    /\ Finished(r) /\ reqs[r].route = "defi"
    /\ reqs[r].seen = << [kind |-> "ok", raw |-> 0] >>
    /\ Response(r).body.positions = <<>> /\ Response(r).body.fallback = TRUE
    /\ ~Has(Response(r).body, "error")

(***************************************************************************)
(* C6.  GetStatus never fails at the HTTP layer: when the block-height     *)
(* call throws, or the provider is not (or not yet) constructed, the       *)
(* response is HTTP 200 with connected false, an error message, and the    *)
(* active profile's network and currency; connected is true only when the  *)
(* block-height call succeeded.                                            *)
(***************************************************************************)
C6_StatusNeverFails ==
  \A r \in Slots :
    Finished(r) /\ reqs[r].route = "status" =>
      LET body == Response(r).body
      IN  /\ Response(r).status = 200
          /\ body.network = "Regtest" /\ body.currency = "rBTC"
          /\ ProviderFailed(r) => body.connected = FALSE /\ Has(body, "error")
          /\ body.connected = TRUE =>
               /\ Len(reqs[r].calls) = 1 /\ reqs[r].seen = <<Resolved>>
               /\ env.rpcUp /\ ~Has(body, "error")

\* Served before initProvider has assigned the provider.
C6_Witness ==
  \E r \in Slots :
    /\ Finished(r) /\ reqs[r].route = "status" /\ reqs[r].calls = <<>>
    /\ initPc = "importing"
    /\ Response(r).status = 200 /\ Response(r).body.connected = FALSE

(***************************************************************************)
(* C7.  In GetTransactions each record's type is "contract" if the raw     *)
(* transaction carries the contract-interaction marker, otherwise          *)
(* "receive" if it has an output flagged as belonging to the queried       *)
(* address, otherwise "send"; the records come in the provider's order and *)
(* count is their number.                                                  *)
(***************************************************************************)
C7_TransactionTypes ==
  \A r \in Slots :
    Finished(r) /\ reqs[r].route = "transactions" /\ ~Has(Response(r).body, "error") =>
      LET body == Response(r).body
          raw == IF env.txAnswer.null THEN <<>> ELSE env.txAnswer.list
      IN  /\ Len(body.transactions) = Len(raw) /\ body.count = Len(raw)
          /\ \A k \in 1..Len(raw) :
               /\ body.transactions[k].type =
                    IF raw[k].isOPNET THEN "contract" ELSE IF raw[k].mine THEN "receive" ELSE "send"
               /\ body.transactions[k].isContractCall = raw[k].isOPNET

(***************************************************************************)
(* C8.  Idempotence: two calls of a route with the same address and an     *)
(* unchanged remote state get identical responses, whenever in the process *)
(* lifetime they are served, before or after the provider initialisation   *)
(* has completed.                                                          *)
(***************************************************************************)
C8_Idempotence ==
  \A r, t \in Slots :
    /\ Finished(r) /\ Finished(t)
    /\ reqs[r].route = reqs[t].route /\ reqs[r].address = reqs[t].address
    => Response(r) = Response(t)

(***************************************************************************)
(* C9.  GetBalance called with the address                                 *)
(* "bcrt1qexampleaddresswithoutsufficientlength" responds with HTTP 400    *)
(* and body {error: "Invalid address"}, without invoking the provider.     *)
(***************************************************************************)
C9_ExampleRejected ==
  \A r \in Slots :
    Finished(r) /\ reqs[r].route = "balance" /\ reqs[r].address = ExampleAddress =>
      /\ Response(r).status = 400
      /\ Response(r).body = [error |-> "Invalid address"]
      /\ reqs[r].calls = <<>>

\* C9, amended.  That address has 43 characters, not fewer than 20, and
\* GetBalance does not reject it: it responds with the 200 success shape or the
\* 500 fallback shape, never 400.  Its 19-character prefix is what gets HTTP 400
\* with body {error: "Invalid address"}, without the provider being invoked.
C9_ExampleAccepted ==
  \A r \in Slots :
    Finished(r) /\ reqs[r].route = "balance" =>
      /\ reqs[r].address = ExampleAddress =>
           /\ Len(reqs[r].address) = 43
           /\ Response(r).status \in {200, 500}
           /\ Response(r).body # [error |-> "Invalid address"]
           /\ Response(r).status = 200 => reqs[r].calls = << [op |-> "getBalance", k |-> 0] >>
      /\ reqs[r].address = ShortAddress =>
           /\ Len(reqs[r].address) = 19
           /\ Response(r).status = 400
           /\ Response(r).body = [error |-> "Invalid address"]
           /\ reqs[r].calls = <<>>

C9_Witness ==
  \E r \in Slots :
    /\ Finished(r) /\ reqs[r].route = "balance" /\ reqs[r].address = ExampleAddress
    /\ Response(r).status = 200 /\ Has(Response(r).body, "balanceBTC")
    /\ reqs[r].calls = << [op |-> "getBalance", k |-> 0] >>

(***************************************************************************)
(* C10.  No retry: a request of GetStatus, GetBalance or GetTransactions   *)
(* invokes the provider at most once; GetTokenBalances and                 *)
(* GetDeFiPositions invoke balanceOf at most once per descriptor, in list  *)
(* order, each call settled before the next starts; a request ends with    *)
(* exactly one response sent.                                              *)
(***************************************************************************)
ListLength(route) == IF route = "tokens" THEN Len(env.tokens) ELSE Len(DEFI_PROTOCOLS)

C10_NoRetry ==
  \A r \in Slots :
    LET q == reqs[r]
    IN  /\ Len(q.sent) = (IF q.pc = "done" THEN 1 ELSE 0)
        /\ Len(q.calls) - Len(q.seen) = (IF q.pc = "await" THEN 1 ELSE 0)
        /\ q.route \in {"status", "balance", "transactions"} => Len(q.calls) <= 1
        /\ q.route \in {"tokens", "defi"} =>
             /\ Len(q.calls) <= ListLength(q.route)
             /\ \A k \in 1..Len(q.calls) : q.calls[k] = [op |-> "balanceOf", k |-> k]

\* A three-token request whose second lookup threw: three calls, one each, and
\* one response.
C10_Witness ==
  \E r \in Slots :
    /\ Finished(r) /\ reqs[r].route = "tokens" /\ Len(reqs[r].calls) = 3
    /\ reqs[r].seen[2].kind = "throws" /\ reqs[r].seen[3].kind = "ok"
    /\ Len(reqs[r].sent) = 1

====
